---------------------------- MODULE Spec2Model ----------------------------
(***************************************************************************)
(* A model of the US-stock data pipeline of daily_stock_analysis:          *)
(*   src/data_provider/yfinance_fetcher.py  YfinanceFetcher                *)
(*   src/src/market_analyzer.py             MarketAnalyzer                 *)
(*                                                                         *)
(* Strings are sequences of one-character strings.  Floats are records     *)
(* [k, v] with k \in {"num", "nan", "inf"}; a finite value is an exact     *)
(* integer (prices in whole units, percentages in hundredths of a percent).*)
(* Each component has its own specification (SpecValidate, SpecFetch, ...) *)
(* over the shared variables; the variables of the other components stay   *)
(* at their idle values.                                                   *)
(***************************************************************************)
EXTENDS Integers, Sequences, FiniteSets, TLC

VARIABLES
    \* --- YfinanceFetcher._validate_us_stock_code, called on its own
    v_pc,            \* "idle" | "done"
    v_in,            \* its argument stock_code
    v_out,           \* what the call did: returned a code, or raised
    \* --- YfinanceFetcher._fetch_raw_data under @retry
    f_pc,            \* "idle" | "attempt" | "sleep" | "returned" | "raised"
    arg_stock_code,  \* the argument of the call
    exp_offset,      \* which wait_exponential the installed tenacity has
    attempt_number,  \* retry_state.attempt_number
    upcoming_sleep,  \* retry_state.upcoming_sleep
    f_out,           \* what reaches the caller of _fetch_raw_data
    validate_calls,  \* invocations of _validate_us_stock_code
    download_calls,  \* invocations of yf.download
    provider_log,    \* what yf.download answered, call by call
    waits,           \* the sleeps taken between attempts, in order
    \* --- YfinanceFetcher._normalize_data
    n_pc,            \* "idle" | "done"
    n_df,            \* its argument df: None or a raw table
    n_code,          \* its argument stock_code
    fill_method,     \* Series.pct_change's default fill_method of the installed pandas
    n_out,           \* what the call did: returned a table, or raised
    \* --- MarketAnalyzer.get_market_overview / _get_main_indices
    m_pc,            \* "idle" | "loop" | "done" | "raised"
    m_pos,           \* position in MAIN_INDICES of the index fetched next
    indices,         \* the local list indices of _get_main_indices
    hist_log,        \* what ticker.history answered, index by index
    overview,        \* the MarketOverview under construction, then returned
    \* --- MarketAnalyzer.generate_market_review
    r_pc,            \* "idle" | "done"
    r_overview,      \* its argument overview
    r_news,          \* its argument news
    analyzer,        \* self.analyzer: absent, unavailable, or available
    r_out            \* what the call did: returned a text, or raised

validateVars == <<v_pc, v_in, v_out>>

fetchVars == <<f_pc, arg_stock_code, exp_offset, attempt_number, upcoming_sleep,
               f_out, validate_calls, download_calls, provider_log, waits>>

normalizeVars == <<n_pc, n_df, n_code, fill_method, n_out>>

marketVars == <<m_pc, m_pos, indices, hist_log, overview>>

reviewVars == <<r_pc, r_overview, r_news, analyzer, r_out>>

vars == <<validateVars, fetchVars, normalizeVars, marketVars, reviewVars>>

----------------------------------------------------------------------------
(* Bounds of the model *)

\* longest input string handed to _validate_us_stock_code
MaxLen == 7

\* distinct non-empty tables the provider can answer with
NumTables == 2

\* most rows of a raw table handed to _normalize_data
MaxRows == 3

\* most news items handed to generate_market_review
MaxNews == 2

----------------------------------------------------------------------------
(* Characters and strings *)

\* str.upper() on the ASCII letters
LowerToUpper ==
    [a |-> "A", b |-> "B", c |-> "C", d |-> "D", e |-> "E", f |-> "F",
     g |-> "G", h |-> "H", i |-> "I", j |-> "J", k |-> "K", l |-> "L",
     m |-> "M", n |-> "N", o |-> "O", p |-> "P", q |-> "Q", r |-> "R",
     s |-> "S", t |-> "T", u |-> "U", v |-> "V", w |-> "W", x |-> "X",
     y |-> "Y", z |-> "Z"]

\* the character class [A-Z] of the regular expression
AZ == {LowerToUpper[c] : c \in DOMAIN LowerToUpper}

\* the characters str.strip() removes (ASCII whitespace)
Whitespace == {" ", "\t", "\n", "\r"}

IsAZ(c) == c \in AZ

\* str.upper() on one character
UpperChar(c) == IF c \in DOMAIN LowerToUpper THEN LowerToUpper[c] ELSE c

\* str.upper()
Upper(s) == [i \in 1..Len(s) |-> UpperChar(s[i])]

\* str.strip(): drop the leading and the trailing whitespace
Strip(s) ==
    LET keep == {i \in 1..Len(s) : s[i] \notin Whitespace}
    IN  IF keep = {} THEN <<>>
        ELSE LET lo == CHOOSE i \in keep : \A j \in keep : i <= j
                 hi == CHOOSE i \in keep : \A j \in keep : j <= i
             IN  SubSeq(s, lo, hi)

----------------------------------------------------------------------------
(* Exceptions and call outcomes *)

NoExc == [type |-> "none", msg |-> "", arg |-> <<>>]

\* DataFetchError(f"...: {arg}")
DataFetchError(msg, arg) == [type |-> "DataFetchError", msg |-> msg, arg |-> arg]

Returned(value) == [raised |-> FALSE, value |-> value, exc |-> NoExc]

Raised(exc) == [raised |-> TRUE, value |-> <<>>, exc |-> exc]

NoOutcome == [raised |-> FALSE, value |-> <<>>, exc |-> NoExc]

----------------------------------------------------------------------------
(* The state of a component that has not been called *)

ValidateIdle ==
    /\ v_pc = "idle"
    /\ v_in = <<>>
    /\ v_out = NoOutcome

FetchIdle ==
    /\ f_pc = "idle"
    /\ arg_stock_code = <<>>
    /\ exp_offset = 0
    /\ attempt_number = 0
    /\ upcoming_sleep = 0
    /\ f_out = NoOutcome
    /\ validate_calls = 0
    /\ download_calls = 0
    /\ provider_log = <<>>
    /\ waits = <<>>

\* df is None
NoneTable == [is_none |-> TRUE, index_name |-> "", columns |-> {}, rows |-> <<>>]

NormalizeIdle ==
    /\ n_pc = "idle"
    /\ n_df = NoneTable
    /\ n_code = <<>>
    /\ fill_method = "pad"
    /\ n_out = NoOutcome

\* MarketOverview(date=..., indices=[])
EmptyOverview(date) == [date |-> date, indices |-> <<>>]

MarketIdle ==
    /\ m_pc = "idle"
    /\ m_pos = 1
    /\ indices = <<>>
    /\ hist_log = <<>>
    /\ overview = EmptyOverview("")

ReviewIdle ==
    /\ r_pc = "idle"
    /\ r_overview = EmptyOverview("")
    /\ r_news = <<>>
    /\ analyzer = "absent"
    /\ r_out = NoOutcome

AllIdle == ValidateIdle /\ FetchIdle /\ NormalizeIdle /\ MarketIdle /\ ReviewIdle

----------------------------------------------------------------------------
(* YfinanceFetcher._validate_us_stock_code *)

\* the positions a run [A-Z]{lo,hi} starting at pos can end before
LettersEnd(code, pos, lo, hi) ==
    {e \in (pos + lo)..(pos + hi) :
        /\ e <= Len(code) + 1
        /\ \A i \in pos..(e - 1) : IsAZ(code[i])}

\* Python's $ : the end of the string, or just before a final newline
AtDollar(code, e) ==
    \/ e = Len(code) + 1
    \/ e = Len(code) /\ code[e] = "\n"

ReMatchTickerBroken(code) ==
    \E e1 \in LettersEnd(code, 1, 1, 6) :
        \/ AtDollar(code, e1)
        \/ /\ e1 <= Len(code)
           /\ code[e1] = "."
           /\ \E e2 \in LettersEnd(code, e1 + 1, 1, 3) : AtDollar(code, e2)

\* re.match(r"^[A-Z]{1,6}(\.[A-Z]{1,2})?$", code)
ReMatchTicker(code) ==
    \E e1 \in LettersEnd(code, 1, 1, 6) :
        \/ AtDollar(code, e1)
        \/ /\ e1 <= Len(code)
           /\ code[e1] = "."
           /\ \E e2 \in LettersEnd(code, e1 + 1, 1, 2) : AtDollar(code, e2)

ValidateUsStockCode(stock_code) ==
    LET code == Upper(Strip(stock_code))
    IN  IF ReMatchTicker(code)
        THEN Returned(code)
        ELSE Raised(DataFetchError("illegal_us_stock_code", stock_code))

----------------------------------------------------------------------------
(* Inputs of the validator: every string of at most MaxLen characters over *)
(* a lower-case letter, an upper-case letter, a digit, the dot and a blank *)

Alphabet == {"a", "B", "7", ".", " "}

Strings(n) == UNION {[1..k -> Alphabet] : k \in 0..n}

InitValidate == AllIdle

Validate ==
    /\ v_pc = "idle"
    /\ \E s \in Strings(MaxLen) :
        /\ v_in' = s
        /\ v_out' = ValidateUsStockCode(s)
    /\ v_pc' = "done"
    /\ UNCHANGED <<fetchVars, normalizeVars, marketVars, reviewVars>>

NextValidate == Validate

SpecValidate == InitValidate /\ [][NextValidate]_vars

----------------------------------------------------------------------------
(* YfinanceFetcher._fetch_raw_data and the tenacity retry loop around it   *)
(*   @retry(stop=stop_after_attempt(3), wait=wait_exponential(min=2,max=10))*)

StopAfterAttempt == 3

WaitMin == 2

WaitMax == 10

\* the decorator passes no reraise=True, so tenacity's default applies
Reraise == FALSE

Min(a, b) == IF a <= b THEN a ELSE b

Max(a, b) == IF a >= b THEN a ELSE b

\* an exception raised inside yf.download
ProviderError == [type |-> "ProviderError", msg |-> "", arg |-> <<>>]

\* tenacity.RetryError, raised from the last attempt's exception
RetryError(last) == [type |-> "RetryError", msg |-> last.type, arg |-> last.arg]

\* what one call of yf.download can do: raise, return None, return an empty
\* DataFrame, or return a table with rows
ProviderResponses ==
    {[kind |-> "exception", id |-> 0], [kind |-> "none", id |-> 0],
     [kind |-> "empty", id |-> 0]}
    \cup {[kind |-> "table", id |-> t] : t \in 1..NumTables}

\* the body of _fetch_raw_data, run once; resp is yf.download's answer
FetchRawDataBodyDownloadFirst(code, resp) ==
    LET v == ValidateUsStockCode(code)
    IN  [downloaded |-> TRUE,
         out |-> IF resp.kind = "exception" THEN Raised(ProviderError)
                 ELSE IF v.raised THEN Raised(v.exc)
                 ELSE IF resp.kind \in {"none", "empty"}
                      THEN Raised(DataFetchError("no_data", v.value))
                 ELSE Returned(resp)]

FetchRawDataBody(code, resp) ==
    LET v == ValidateUsStockCode(code)
    IN  IF v.raised
        THEN [downloaded |-> FALSE, out |-> Raised(v.exc)]
        ELSE [downloaded |-> TRUE,
              out |-> IF resp.kind = "exception" THEN Raised(ProviderError)
                      ELSE IF resp.kind \in {"none", "empty"}
                           THEN Raised(DataFetchError("no_data", v.value))
                      ELSE Returned(resp)]

ShouldStopOffByOne(n) == n > StopAfterAttempt

\* stop_after_attempt(3): retry_state.attempt_number >= max_attempt_number
ShouldStop(n) == n >= StopAfterAttempt

WaitExponentialNoMin(n, offset) == Min(2 ^ (n - 1 + offset), WaitMax)

\* wait_exponential(multiplier=1, min=2, max=10, exp_base=2) after attempt n:
\* max(max(0, min), min(multiplier * exp_base ** (n - 1), max)); tenacity
\* before 8.0 raised exp_base to n instead (offset 1)
WaitExponential(n, offset) ==
    Max(Max(0, WaitMin), Min(1 * 2 ^ (n - 1 + offset), WaitMax))

\* what tenacity hands the caller once it stops retrying
SurfaceError(last) == IF Reraise THEN last ELSE RetryError(last)

\* the stock codes the fetch is called with
StockCodes ==
    {<<"a", "a", "p", "l">>, <<"B", "R", "K", ".", "B">>,
     <<" ", "s", "p", "y", " ">>,
     <<"a", "p", "p", "l", "3">>, <<>>,
     <<"T", "O", "O", ".", "L", "O", "N", "G", "G">>}

InitFetch == AllIdle

\* the caller invokes fetcher._fetch_raw_data(stock_code, start, end)
Call ==
    /\ f_pc = "idle"
    /\ \E c \in StockCodes : arg_stock_code' = c
    /\ \E o \in {0, 1} : exp_offset' = o
    /\ attempt_number' = 1
    /\ f_pc' = "attempt"
    /\ UNCHANGED <<upcoming_sleep, f_out, validate_calls, download_calls,
                   provider_log, waits>>
    /\ UNCHANGED <<validateVars, normalizeVars, marketVars, reviewVars>>

\* one attempt: the function body, then tenacity's decision (Retrying.iter)
Attempt ==
    /\ f_pc = "attempt"
    /\ \E resp \in ProviderResponses :
        LET r == FetchRawDataBody(arg_stock_code, resp)
        IN  /\ validate_calls' = validate_calls + 1
            /\ download_calls' = download_calls + (IF r.downloaded THEN 1 ELSE 0)
            /\ provider_log' = IF r.downloaded THEN Append(provider_log, resp)
                               ELSE provider_log
            /\ IF ~r.out.raised
               THEN /\ f_pc' = "returned"
                    /\ f_out' = r.out
                    /\ UNCHANGED upcoming_sleep
               ELSE IF ShouldStop(attempt_number)
               THEN /\ f_pc' = "raised"
                    /\ f_out' = Raised(SurfaceError(r.out.exc))
                    /\ UNCHANGED upcoming_sleep
               ELSE /\ f_pc' = "sleep"
                    /\ upcoming_sleep' = WaitExponential(attempt_number, exp_offset)
                    /\ UNCHANGED f_out
    /\ UNCHANGED <<arg_stock_code, exp_offset, attempt_number, waits>>
    /\ UNCHANGED <<validateVars, normalizeVars, marketVars, reviewVars>>

\* retry_state.prepare_for_next_attempt(); self.sleep(upcoming_sleep)
Sleep ==
    /\ f_pc = "sleep"
    /\ attempt_number' = attempt_number + 1
    /\ waits' = Append(waits, upcoming_sleep)
    /\ f_pc' = "attempt"
    /\ UNCHANGED <<arg_stock_code, exp_offset, upcoming_sleep, f_out, validate_calls,
                   download_calls, provider_log>>
    /\ UNCHANGED <<validateVars, normalizeVars, marketVars, reviewVars>>

NextFetch == Call \/ Attempt \/ Sleep

SpecFetch == InitFetch /\ [][NextFetch]_vars

----------------------------------------------------------------------------
(* YfinanceFetcher._normalize_data                                         *)
(* A raw table is [is_none, index_name, columns, rows]: the name of its   *)
(* index ("" when unnamed), the set of its column names, and its rows in   *)
(* the order the provider returned them; a row holds the index value and   *)
(* the cells.                                                              *)

Num(v) == [k |-> "num", v |-> v]

NaN == [k |-> "nan", v |-> 0]

Inf == [k |-> "inf", v |-> 0]

\* the canonical column list of data_provider/base.py
STANDARD_COLUMNS ==
    <<"date", "open", "high", "low", "close", "volume", "pct_chg", "amount">>

KeyError(key) == [type |-> "KeyError", msg |-> key, arg |-> <<>>]

\* df.rename(columns={...})
RenameColumn(c) ==
    CASE c = "Date"   -> "date"
      [] c = "Open"   -> "open"
      [] c = "High"   -> "high"
      [] c = "Low"    -> "low"
      [] c = "Close"  -> "close"
      [] c = "Volume" -> "volume"
      [] OTHER        -> c

\* df is None or df.empty (an axis of length 0)
IsEmpty(df) == df.is_none \/ df.rows = <<>> \/ df.columns = {}

\* the columns after df.reset_index() and df.rename(...)
ColumnsAfterRename(df) ==
    {RenameColumn(c) : c \in df.columns}
    \cup {RenameColumn(IF df.index_name = "" THEN "index" ELSE df.index_name)}

\* Series.ffill(): a missing value takes the last value before it
RECURSIVE Pad(_)
Pad(q) ==
    IF Len(q) <= 1 THEN q
    ELSE LET front == Pad(SubSeq(q, 1, Len(q) - 1))
             last  == q[Len(q)]
         IN  Append(front, IF last.k = "nan" THEN front[Len(front)] ELSE last)

\* round(100 * n / d, 2) in hundredths, halves to even, for d > 0
RoundedRatio(n, d) ==
    LET m == 10000 * n
        q == m \div d
        r == m % d
    IN  IF 2 * r < d THEN q
        ELSE IF 2 * r > d THEN q + 1
        ELSE IF q % 2 = 0 THEN q ELSE q + 1

\* (cur / prev - 1) * 100, then .fillna(0).round(2)
PctOfPair(prev, cur) ==
    IF prev.k = "nan" \/ cur.k = "nan" THEN Num(0)
    ELSE IF prev.v = 0 THEN (IF cur.v = 0 THEN Num(0) ELSE Inf)
    ELSE Num(RoundedRatio(cur.v - prev.v, prev.v))

\* df["close"].pct_change() * 100, .fillna(0).round(2), over the rows in
\* the order they have in the table
PctChg(closes, method) ==
    LET filled == IF method = "pad" THEN Pad(closes) ELSE closes
    IN  [i \in 1..Len(closes) |->
            IF i = 1 THEN Num(0) ELSE PctOfPair(filled[i - 1], filled[i])]

\* df["volume"] * df["close"]
Amount(volume, close) ==
    IF close.k = "nan" THEN NaN ELSE Num(volume * close.v)

\* [c for c in ["code"] + STANDARD_COLUMNS if c in df.columns]
KeepCols(present) ==
    SelectSeq(<<"code">> \o STANDARD_COLUMNS, LAMBDA c : c \in present)

NormalizeData(df, stock_code, method) ==
    IF IsEmpty(df)
    THEN Raised(DataFetchError("normalize_empty", stock_code))
    ELSE LET cols == ColumnsAfterRename(df)
         IN  IF "date" \notin cols THEN Raised(KeyError("date"))
             ELSE IF "close" \notin cols THEN Raised(KeyError("close"))
             ELSE IF "volume" \notin cols THEN Raised(KeyError("volume"))
             ELSE
               LET pct  == PctChg([i \in 1..Len(df.rows) |-> df.rows[i].close], method)
                   keep == KeepCols(cols \cup {"pct_chg", "amount", "code"})
                   cell(i, c) ==
                       CASE c = "code"    -> Upper(stock_code)
                         [] c = "pct_chg" -> pct[i]
                         [] c = "amount"  -> Amount(df.rows[i].volume, df.rows[i].close)
                         [] OTHER         -> df.rows[i][c]
               IN  Returned([columns |-> keep,
                             rows |-> [i \in 1..Len(df.rows) |->
                                         [c \in {keep[x] : x \in 1..Len(keep)} |-> cell(i, c)]]])

\* the daily bars a provider row can hold: a close of 0, 99, 100, 110 or a
\* missing close, and a volume of 0 or 7
Closes == {Num(0), Num(99), Num(100), Num(110), NaN}

Bars ==
    {[open |-> c, high |-> c, low |-> c, close |-> c, volume |-> v] :
        c \in Closes, v \in {0, 7}}

\* the orders n distinct trading days can come in
DateOrders(n) == {d \in [1..n -> 1..n] : \A i, j \in 1..n : d[i] = d[j] => i = j}

\* the rows of a table whose i-th row is the bar b[i] of day d[i]
Rows(d, b) ==
    [i \in DOMAIN d |->
        [date |-> d[i], open |-> b[i].open, high |-> b[i].high,
         low |-> b[i].low, close |-> b[i].close, volume |-> b[i].volume]]

ProviderColumns == {"Open", "High", "Low", "Close", "Volume", "Adj Close"}

\* yfinance's table: a Date index and the adjusted OHLCV columns
FullTable(rows) ==
    [is_none |-> FALSE, index_name |-> "Date",
     columns |-> {"Open", "High", "Low", "Close", "Volume"}, rows |-> rows]

\* tables with any subset of the columns, a named or an unnamed index, and
\* no row or two rows
SparseTables ==
    {[is_none |-> FALSE, index_name |-> ix, columns |-> cs, rows |-> r] :
        ix \in {"Date", ""}, cs \in SUBSET ProviderColumns,
        r \in {<<>>, Rows(<<1, 2>>, <<[open |-> Num(100), high |-> Num(100),
                                      low |-> Num(100), close |-> Num(100),
                                      volume |-> 7],
                                     [open |-> Num(110), high |-> Num(110),
                                      low |-> Num(110), close |-> Num(110),
                                      volume |-> 7]>>)}}

InitNormalize == AllIdle

\* _normalize_data(None, stock_code)
NormalizeNone ==
    /\ n_pc = "idle"
    /\ \E code \in StockCodes, m \in {"pad", "none"} :
        /\ n_df' = NoneTable
        /\ n_code' = code
        /\ fill_method' = m
        /\ n_out' = NormalizeData(NoneTable, code, m)
    /\ n_pc' = "done"
    /\ UNCHANGED <<validateVars, fetchVars, marketVars, reviewVars>>

\* _normalize_data(df, stock_code), df with some of the provider's columns
NormalizeSparse ==
    /\ n_pc = "idle"
    /\ \E df \in SparseTables, m \in {"pad", "none"} :
        /\ n_df' = df
        /\ n_code' = <<"a", "a", "p", "l">>
        /\ fill_method' = m
        /\ n_out' = NormalizeData(df, <<"a", "a", "p", "l">>, m)
    /\ n_pc' = "done"
    /\ UNCHANGED <<validateVars, fetchVars, marketVars, reviewVars>>

\* _normalize_data(df, stock_code), df a full table of up to MaxRows rows in
\* any order of their dates
Normalize ==
    /\ n_pc = "idle"
    /\ \E k \in 0..MaxRows : \E d \in DateOrders(k), b \in [1..k -> Bars] :
        \E m \in {"pad", "none"} :
            /\ n_df' = FullTable(Rows(d, b))
            /\ n_code' = <<"a", "a", "p", "l">>
            /\ fill_method' = m
            /\ n_out' = NormalizeData(FullTable(Rows(d, b)), <<"a", "a", "p", "l">>, m)
    /\ n_pc' = "done"
    /\ UNCHANGED <<validateVars, fetchVars, marketVars, reviewVars>>

NextNormalize == Normalize \/ NormalizeSparse \/ NormalizeNone

SpecNormalize == InitNormalize /\ [][NextNormalize]_vars

----------------------------------------------------------------------------
(* MarketAnalyzer._get_main_indices and get_market_overview *)

\* the dict MAIN_INDICES, in insertion order
MAIN_INDICES ==
    <<[code |-> "^GSPC", name |-> "S&P 500"],
      [code |-> "^IXIC", name |-> "NASDAQ Composite"],
      [code |-> "^DJI",  name |-> "Dow Jones"],
      [code |-> "^VIX",  name |-> "VIX Volatility"]>>

\* the closes a daily bar of an index can hold
IndexPrices == {0, 100, 110}

IndexBars == {[Open |-> c, High |-> c, Low |-> c, Close |-> c] : c \in IndexPrices}

\* what yf.Ticker(code).history(period="2d") can do: raise, return an empty
\* frame, return bars float() cannot read, or return one or two daily bars
HistAnswers ==
    {[kind |-> "exception", bars |-> <<>>], [kind |-> "empty", bars |-> <<>>],
     [kind |-> "malformed", bars |-> <<>>]}
    \cup {[kind |-> "bars", bars |-> b] : b \in [1..1 -> IndexBars] \cup [1..2 -> IndexBars]}

\* MarketIndex(code=..., name=..., current=..., ...); change_pct is the exact
\* quotient 100 * change / prev_close, kept as <<numerator, denominator>>
MarketIndex(entry, today, prev) ==
    LET price      == today.Close
        prev_close == prev.Close
        change     == price - prev_close
    IN  [code |-> entry.code, name |-> entry.name, current |-> price,
         change |-> change,
         change_pct |-> IF prev_close # 0 THEN <<100 * change, prev_close>> ELSE <<0, 1>>,
         open |-> today.Open, high |-> today.High, low |-> today.Low,
         prev_close |-> prev_close]

NoIndex == [code |-> "", name |-> "", current |-> 0, change |-> 0,
            change_pct |-> <<0, 1>>, open |-> 0, high |-> 0, low |-> 0,
            prev_close |-> 0]

\* one iteration of the for loop without its try/except
IndexStepUncaught(entry, hist) ==
    CASE hist.kind \in {"exception", "malformed"} -> [kind |-> "escape", item |-> NoIndex]
      [] hist.kind = "empty" -> [kind |-> "skip", item |-> NoIndex]
      [] OTHER ->
           LET n     == Len(hist.bars)
               today == hist.bars[n]
               prev  == IF n > 1 THEN hist.bars[n - 1] ELSE today
           IN  [kind |-> "append", item |-> MarketIndex(entry, today, prev)]

\* one iteration of the for loop: the try block, `continue` on an empty
\* frame, and the except clause that logs a warning and goes on
IndexStep(entry, hist) ==
    CASE hist.kind \in {"exception", "malformed"} -> [kind |-> "skip", item |-> NoIndex]
      [] hist.kind = "empty" -> [kind |-> "skip", item |-> NoIndex]
      [] OTHER ->
           LET n     == Len(hist.bars)
               today == hist.bars[n]
               prev  == IF n > 1 THEN hist.bars[n - 1] ELSE today
           IN  [kind |-> "append", item |-> MarketIndex(entry, today, prev)]

\* datetime.now().strftime("%Y-%m-%d")
Dates == {"2026-01-05", "2026-01-06"}

InitMarket == AllIdle

\* get_market_overview up to the first index of _get_main_indices
GetMarketOverview ==
    /\ m_pc = "idle"
    /\ \E today \in Dates : overview' = EmptyOverview(today)
    /\ indices' = <<>>
    /\ m_pos' = 1
    /\ m_pc' = "loop"
    /\ UNCHANGED hist_log
    /\ UNCHANGED <<validateVars, fetchVars, normalizeVars, reviewVars>>

\* one iteration of the loop over MAIN_INDICES; after the last one
\* _get_main_indices returns and overview.indices is assigned
FetchIndex ==
    /\ m_pc = "loop"
    /\ \E hist \in HistAnswers :
        LET r    == IndexStep(MAIN_INDICES[m_pos], hist)
            next == IF r.kind = "append" THEN Append(indices, r.item) ELSE indices
        IN  /\ hist_log' = Append(hist_log, hist)
            /\ IF r.kind = "escape"
               THEN /\ m_pc' = "raised"
                    /\ UNCHANGED <<m_pos, indices, overview>>
               ELSE /\ indices' = next
                    /\ m_pos' = m_pos + 1
                    /\ IF m_pos = Len(MAIN_INDICES)
                       THEN /\ m_pc' = "done"
                            /\ overview' = [overview EXCEPT !.indices = next]
                       ELSE /\ m_pc' = "loop"
                            /\ UNCHANGED overview
    /\ UNCHANGED <<validateVars, fetchVars, normalizeVars, reviewVars>>

NextMarket == GetMarketOverview \/ FetchIndex

SpecMarket == InitMarket /\ [][NextMarket]_vars

----------------------------------------------------------------------------
(* MarketAnalyzer.generate_market_review *)

\* what _get_main_indices returns when ticker.history answers answers[i] for
\* the i-th index
RECURSIVE IndicesOf(_, _)
IndicesOf(answers, n) ==
    IF n = 0 THEN <<>>
    ELSE LET r == IndexStep(MAIN_INDICES[n], answers[n])
         IN  IF r.kind = "append" THEN Append(IndicesOf(answers, n - 1), r.item)
             ELSE IndicesOf(answers, n - 1)

\* overviews get_market_overview can return: each index either failed or
\* came with the bars 100, 110
ReviewOverviews ==
    {[date |-> d, indices |-> IndicesOf(a, Len(MAIN_INDICES))] :
        d \in Dates,
        a \in [1..Len(MAIN_INDICES) ->
                 {[kind |-> "exception", bars |-> <<>>],
                  [kind |-> "bars",
                   bars |-> <<[Open |-> 100, High |-> 100, Low |-> 100, Close |-> 100],
                              [Open |-> 110, High |-> 110, Low |-> 110, Close |-> 110]>>]}]}

\* a news item: an object with a title attribute or a mapping, whose title is
\* a string of len characters, None, or (for a mapping) not there at all
NewsItems ==
    {[shape |-> sh, title |-> "str", len |-> l] : sh \in {"attr", "dict"}, l \in {40, 75}}
    \cup {[shape |-> sh, title |-> "none", len |-> 0] : sh \in {"attr", "dict"}}
    \cup {[shape |-> "dict", title |-> "missing", len |-> 0]}

NewsLists == UNION {[1..k -> NewsItems] : k \in 0..MaxNews}

\* self.analyzer: None, or an analyzer whose is_available() is False, or one
\* that is available and whose _call_openai_api returns or raises
Analyzers == {"absent", "unavailable", "available", "available_call_fails"}

TypeError == [type |-> "TypeError", msg |-> "NoneType is not subscriptable", arg |-> <<>>]

AnalyzerError == [type |-> "AnalyzerError", msg |-> "", arg |-> <<>>]

\* f"- {i.name}: {i.current:.2f} ({i.change_pct:+.2f}%)" for each index
IndicesText(ov) ==
    [i \in 1..Len(ov.indices) |->
        [name |-> ov.indices[i].name, current |-> ov.indices[i].current,
         change_pct |-> ov.indices[i].change_pct]]

\* n.title[:60] if hasattr(n, "title") else n.get("title", "")[:60]
\* a title of None cannot be sliced
NewsLine(n) ==
    IF n.shape = "attr"
    THEN (IF n.title = "none" THEN Raised(TypeError) ELSE Returned(Min(n.len, 60)))
    ELSE LET got == IF n.title = "missing" THEN [title |-> "str", len |-> 0]
                    ELSE [title |-> n.title, len |-> n.len]
         IN  IF got.title = "none" THEN Raised(TypeError)
             ELSE Returned(Min(got.len, 60))

\* the list comprehension over news[:5]: the length of each line, or the
\* exception of the first item that cannot be rendered
NewsText(news) ==
    LET head == SubSeq(news, 1, Min(Len(news), 5))
    IN  IF \E i \in 1..Len(head) : NewsLine(head[i]).raised
        THEN Raised(TypeError)
        ELSE Returned([i \in 1..Len(head) |-> NewsLine(head[i]).value])

TemplateText(ov) == [kind |-> "template", date |-> ov.date, lines |-> IndicesText(ov)]

GeneratedText(ov, news_text) ==
    [kind |-> "generated", date |-> ov.date, lines |-> IndicesText(ov),
     news |-> news_text]

GenerateMarketReviewBody(ov, news, an) ==
    LET news_text == NewsText(news)
    IN  IF news_text.raised THEN news_text
        ELSE IF an \in {"absent", "unavailable"} THEN Returned(TemplateText(ov))
        ELSE IF an = "available_call_fails" THEN Raised(AnalyzerError)
        ELSE Returned(GeneratedText(ov, news_text.value))

InitReview == AllIdle

\* run_daily_review hands the overview and the news to
\* generate_market_review and returns its report
GenerateMarketReview ==
    /\ r_pc = "idle"
    /\ \E ov \in ReviewOverviews, news \in NewsLists, an \in Analyzers :
        /\ r_overview' = ov
        /\ r_news' = news
        /\ analyzer' = an
        /\ r_out' = GenerateMarketReviewBody(ov, news, an)
    /\ r_pc' = "done"
    /\ UNCHANGED <<validateVars, fetchVars, normalizeVars, marketVars>>

NextReview == GenerateMarketReview

SpecReview == InitReview /\ [][NextReview]_vars

----------------------------------------------------------------------------
(* Claims about the validator *)

\* the ticker grammar: n = 1-6 upper-case letters, optionally followed by a
\* dot and m = 1-2 upper-case letters
InTickerGrammar(t) ==
    \E n \in 1..6 : \E m \in 0..2 :
        /\ Len(t) = (IF m = 0 THEN n ELSE n + 1 + m)
        /\ \A k \in 1..n : IsAZ(t[k])
        /\ m > 0 => t[n + 1] = "." /\ \A k \in (n + 2)..(n + 1 + m) : IsAZ(t[k])

\* i leading and j trailing characters of s are all of its outer whitespace
IsTrim(s, i, j) ==
    /\ \A k \in 1..i : s[k] \in Whitespace
    /\ \A k \in (Len(s) - j + 1)..Len(s) : s[k] \in Whitespace
    /\ i + j < Len(s) => s[i + 1] \notin Whitespace /\ s[Len(s) - j] \notin Whitespace

\* C7: validate returns the trimmed upper-case string exactly when that
\* string is 1-6 upper-case letters optionally followed by a dot and 1-2
\* upper-case letters; for every other input (the empty string, digits, more
\* than 6 leading letters, more than 2 letters after the dot) it raises the
\* validation error and returns nothing.
C7_ValidateMatchesGrammar ==
    v_pc = "done" =>
        \E i \in 0..Len(v_in) : \E j \in 0..(Len(v_in) - i) :
            /\ IsTrim(v_in, i, j)
            /\ LET t == [k \in 1..(Len(v_in) - i - j) |-> UpperChar(v_in[i + k])]
               IN  IF InTickerGrammar(t)
                   THEN v_out = Returned(t)
                   ELSE /\ v_out.raised
                        /\ v_out.value = <<>>
                        /\ v_out.exc = DataFetchError("illegal_us_stock_code", v_in)

\* a padded lower-case ticker with a two-letter suffix was canonicalised
C7_Witness ==
    /\ v_pc = "done"
    /\ v_in = <<" ", "a", "B", ".", "a", "B", " ">>
    /\ v_out = Returned(<<"A", "B", ".", "A", "B">>)

----------------------------------------------------------------------------
(* Claims about the retrying fetch *)

\* s, trimmed and upper-cased, is a ticker of the grammar
MatchesGrammarAfterTrim(s) ==
    \E i \in 0..Len(s) : \E j \in 0..(Len(s) - i) :
        /\ IsTrim(s, i, j)
        /\ InTickerGrammar([k \in 1..(Len(s) - i - j) |-> UpperChar(s[i + k])])

\* the canonical ticker of a string that matches the grammar
CanonicalTicker(s) ==
    LET ij == CHOOSE ij \in (0..Len(s)) \X (0..Len(s)) :
                  ij[1] + ij[2] <= Len(s) /\ IsTrim(s, ij[1], ij[2])
    IN  [k \in 1..(Len(s) - ij[1] - ij[2]) |-> UpperChar(s[ij[1] + k])]

Called == f_pc # "idle"

Ended == f_pc \in {"returned", "raised"}

ProviderFailed(resp) == resp.kind \in {"exception", "none", "empty"}

\* C1: a fetch of a string that does not match the ticker grammar never
\* invokes yf.download, on any attempt, and ends in failure.
C1_InvalidTickerNeverDownloads ==
    (Called /\ ~MatchesGrammarAfterTrim(arg_stock_code)) =>
        /\ download_calls = 0
        /\ provider_log = <<>>
        /\ f_pc # "returned"
        /\ Ended => f_out.raised

\* a fetch of an invalid ticker has run through all its attempts and failed
C1_Witness ==
    /\ ~MatchesGrammarAfterTrim(arg_stock_code)
    /\ f_pc = "raised"
    /\ attempt_number = 3
    /\ download_calls = 0

\* C2: for a valid ticker the fetch makes at most 3 provider calls; it
\* returns the first successful answer, the k-th, after exactly k calls, and
\* it fails after exactly 3 calls when every answer is a failure.
C2_AtMostThreeProviderCalls ==
    (Called /\ MatchesGrammarAfterTrim(arg_stock_code)) =>
        /\ download_calls <= 3
        /\ Len(provider_log) = download_calls
        /\ f_pc = "returned" =>
              /\ download_calls \in 1..3
              /\ ~ProviderFailed(provider_log[download_calls])
              /\ \A i \in 1..(download_calls - 1) : ProviderFailed(provider_log[i])
              /\ f_out = Returned(provider_log[download_calls])
        /\ f_pc = "raised" =>
              /\ download_calls = 3
              /\ \A i \in 1..3 : ProviderFailed(provider_log[i])
        /\ ~Ended => \A i \in 1..download_calls : ProviderFailed(provider_log[i])

\* the provider failed twice and the third answer was returned
C2_Witness ==
    /\ MatchesGrammarAfterTrim(arg_stock_code)
    /\ f_pc = "returned"
    /\ download_calls = 3
    /\ ProviderFailed(provider_log[1]) /\ ProviderFailed(provider_log[2])
    /\ f_out = Returned(provider_log[3])

\* C3: when all 3 attempts fail, the error that reaches the caller is the
\* fetcher's own DataFetchError identifying the ticker, not another kind of
\* error such as the retry library's wrapper.
C3_ExhaustionSurfacesFetchError ==
    (f_pc = "raised" /\ MatchesGrammarAfterTrim(arg_stock_code)) =>
        /\ f_out.exc.type = "DataFetchError"
        /\ f_out.exc.arg = CanonicalTicker(arg_stock_code)

\* C4: a validation failure is never retried: validation runs once, no
\* backoff wait is taken, and the validation error itself reaches the caller.
C4_ValidationFailureNotRetried ==
    (Called /\ ~MatchesGrammarAfterTrim(arg_stock_code)) =>
        /\ validate_calls <= 1
        /\ waits = <<>>
        /\ f_pc # "sleep"
        /\ Ended => f_out = Raised(DataFetchError("illegal_us_stock_code", arg_stock_code))

\* C8: no wait precedes attempt 1; every wait between two attempts is at
\* least 2 and at most 10; a fetch whose 3 attempts all failed waited exactly
\* twice, 4 to 20 in total; the wait before attempt 3 is not shorter than the
\* wait before attempt 2.
C8_BackoffWithinBounds ==
    Called =>
        /\ f_pc \in {"attempt", "sleep"} => Len(waits) = attempt_number - 1
        /\ attempt_number = 1 => waits = <<>>
        /\ \A i \in 1..Len(waits) : 2 <= waits[i] /\ waits[i] <= 10
        /\ f_pc = "sleep" => 2 <= upcoming_sleep /\ upcoming_sleep <= 10
        /\ f_pc = "raised" =>
              /\ Len(waits) = 2
              /\ 4 <= waits[1] + waits[2] /\ waits[1] + waits[2] <= 20
        /\ Len(waits) >= 2 => waits[2] >= waits[1]
        /\ Len(waits) <= 2

\* all 3 attempts failed, after two waits
C8_Witness ==
    /\ f_pc = "raised"
    /\ attempt_number = 3
    /\ Len(waits) = 2

----------------------------------------------------------------------------
(* Claims about the normalizer *)

\* the canonical schema, in its fixed order
CanonicalSchema ==
    <<"code", "date", "open", "high", "low", "close", "volume", "pct_chg", "amount">>

\* the canonical names of the standard columns a raw table has
StandardColumnsOf(df) ==
    {RenameColumn(c) : c \in df.columns \cap {"Open", "High", "Low", "Close", "Volume"}}
    \cup (IF df.index_name = "Date" THEN {"date"} ELSE {})

\* C9: normalize fails, with the fetcher's typed error, exactly when the raw
\* table is empty or absent or lacks the close or the volume column, and never
\* returns an empty sequence; a non-empty table with close and volume that
\* lacks date, open, high or low is normalized with that column omitted, the
\* remaining columns in canonical order and no extra provider column.
C9_NormalizeFailsOnlyOnEmptyOrMissingRequired ==
    n_pc = "done" =>
        LET mustFail == \/ n_df.is_none
                        \/ n_df.rows = <<>>
                        \/ "Close" \notin n_df.columns
                        \/ "Volume" \notin n_df.columns
        IN  /\ n_out.raised <=> mustFail
            /\ n_out.raised => n_out.exc.type = "DataFetchError"
            /\ ~n_out.raised =>
                  /\ n_out.value.rows # <<>>
                  /\ n_out.value.columns =
                        SelectSeq(CanonicalSchema,
                                  LAMBDA c : c \in StandardColumnsOf(n_df)
                                                     \cup {"code", "pct_chg", "amount"})

\* the row of the table that immediately precedes row i in date order (0: none)
DatePredecessor(rows, i) ==
    LET earlier == {j \in 1..Len(rows) : rows[j].date < rows[i].date}
    IN  IF earlier = {} THEN 0
        ELSE CHOOSE j \in earlier : \A x \in earlier : rows[x].date <= rows[j].date

\* C10: the output has one row per input row; the earliest row's pct_chg is
\* 0.0; every later row's pct_chg is 100 * (close - previous close) / previous
\* close rounded to 2 decimals, the previous row being the one just before it
\* in date-ascending order, whatever order the provider returned the rows in;
\* no pct_chg is ever null, also when the previous close is 0 or missing.
C10_PctChgAgainstDatePredecessor ==
    (n_pc = "done" /\ ~n_df.is_none /\ n_df.rows # <<>>
       /\ {"Close", "Volume"} \subseteq n_df.columns /\ n_df.index_name = "Date") =>
        /\ ~n_out.raised
        /\ Len(n_out.value.rows) = Len(n_df.rows)
        /\ \A i \in 1..Len(n_df.rows) :
              LET j   == DatePredecessor(n_df.rows, i)
                  pct == n_out.value.rows[i]["pct_chg"]
                  cur == n_df.rows[i].close
              IN  /\ pct.k # "nan"
                  /\ n_out.value.rows[i]["date"] = n_df.rows[i].date
                  /\ j = 0 => pct = Num(0)
                  /\ (j # 0 /\ cur.k = "num" /\ n_df.rows[j].close.k = "num"
                        /\ n_df.rows[j].close.v # 0) =>
                        pct = Num(RoundedRatio(cur.v - n_df.rows[j].close.v,
                                               n_df.rows[j].close.v))

\* C10, for a table whose rows come in date-ascending order with every close
\* present and none of them 0: closes [100, 110, 99] give [0.0, 10.0, -10.0]
C10_Example ==
    (n_pc = "done" /\ ~n_out.raised /\ Len(n_df.rows) = 3
       /\ \A i \in 1..3 : n_df.rows[i].date = i
       /\ n_df.rows[1].close = Num(100) /\ n_df.rows[2].close = Num(110)
       /\ n_df.rows[3].close = Num(99)) =>
        /\ n_out.value.rows[1]["pct_chg"] = Num(0)
        /\ n_out.value.rows[2]["pct_chg"] = Num(1000)
        /\ n_out.value.rows[3]["pct_chg"] = Num(-1000)

----------------------------------------------------------------------------
(* Claims about the market overview and the report *)

ConfiguredOrder == <<"^GSPC", "^IXIC", "^DJI", "^VIX">>

CodesOf(list) == [i \in 1..Len(list) |-> list[i].code]

\* the configured indices whose fetch neither threw nor came back empty
Fetched(log) ==
    {ConfiguredOrder[i] : i \in {x \in 1..Len(log) : log[x].kind = "bars"}}

\* C5: whichever of the four configured indices fail to fetch, building the
\* overview raises nothing and returns exactly the other configured indices,
\* each once, in the configured order; a failure on one index never keeps the
\* later ones from being fetched.
C5_OverviewOmitsOnlyFailedIndices ==
    /\ m_pc # "raised"
    /\ m_pc \in {"loop", "done"} =>
          CodesOf(indices) = SelectSeq(ConfiguredOrder, LAMBDA c : c \in Fetched(hist_log))
    /\ m_pc = "loop" => Len(hist_log) = m_pos - 1 /\ m_pos <= 4
    /\ m_pc = "done" =>
          /\ Len(hist_log) = 4
          /\ overview.indices = indices
          /\ CodesOf(overview.indices) =
                SelectSeq(ConfiguredOrder, LAMBDA c : c \in Fetched(hist_log))

\* the fetch of the second index threw and the overview holds the other three
C5_Witness ==
    /\ m_pc = "done"
    /\ hist_log[2].kind = "exception"
    /\ \A i \in {1, 3, 4} : hist_log[i].kind = "bars"
    /\ CodesOf(overview.indices) = <<"^GSPC", "^DJI", "^VIX">>

\* C6: report generation never surfaces an error: whatever the overview and
\* the news items (title by attribute, by mapping lookup, missing or null),
\* the result is the templated text of the date and the indices when the
\* analyzer is absent or unavailable, and the generated narrative when it is
\* available, also when the generation call fails.
C6_ReviewNeverRaises ==
    r_pc = "done" =>
        /\ ~r_out.raised
        /\ analyzer \in {"absent", "unavailable"} =>
              r_out.value = [kind |-> "template", date |-> r_overview.date,
                             lines |-> IndicesText(r_overview)]
        /\ analyzer \in {"available", "available_call_fails"} =>
              r_out.value.kind = "generated"

=============================================================================
